---- MODULE Spec2Model ----
(***************************************************************************)
(* A model of the compliance evaluation pipeline of nodal-core:            *)
(*   geometry.py  check_turning_circle / check_multiple_spaces             *)
(*   rules.py     BFS2024ComplianceChecker (20 rules and the aggregation)  *)
(*                                                                         *)
(* A Python dict is a function whose domain is the set of keys present.    *)
(* Python's bool is a subclass of int, so True is 1 and False is 0.        *)
(* ramp_slope_ratio is a real number: it is kept as an integer number of   *)
(* 1/SlopeDen, which represents 1/12, 0.05 and 0.10 exactly.               *)
(***************************************************************************)
EXTENDS Integers, Sequences, FiniteSets, TLC

VARIABLES
    space_dict,       \* the room record handed to the core
    geometry_result,  \* the feasibility result handed to check_compliance
    rule_results,     \* check_compliance's local list when it returned or raised
    result,           \* the ComplianceResult check_compliance returned
    raised,           \* the exception that left the last call, "" when none
    pc,               \* "start" before the call, "done" after it
    spaces,              \* the rooms of a batch, as the parser lists them
    geometry_results,    \* what check_multiple_spaces returned for the batch
    compliance_results,  \* the ComplianceResults collected for the batch
    exported             \* the "results" list of the exported report

batch_vars == <<spaces, geometry_results, compliance_results, exported>>

vars == <<space_dict, geometry_result, rule_results, result, raised, pc,
          batch_vars>>

-----------------------------------------------------------------------------
(* Bounds of the model *)

\* a room record and its feasibility result differ from the bare record
\* {id, type} with no feasibility result in at most this many places: an
\* optional input supplied (boundary, one of the 20 optional attributes, the
\* feasibility result) or the id left out
MaxOptional == 2

\* the sides of the rectangles fed to the feasibility check run from
\* 1500 - MaxDelta * 50 to 1500 + MaxDelta * 50 in steps of 50
MaxDelta == 4

-----------------------------------------------------------------------------
(* Python values *)

\* "key in dict"
Has(d, key) == key \in DOMAIN d

\* "dict.get(key) is None": the key is absent (no key of the model's records
\* holds None, but for "boundary", whose value says so itself)
IsNone(d, key) == ~Has(d, key)

\* "nodutgang", "utgang" and "fonster" below stand for the tags rules.py
\* spells with Swedish letters

\* str.lower() on the type tags the model feeds in
Lower(t) ==
    CASE t = "Bathroom" -> "bathroom"
      [] t = "WC" -> "wc"
      [] OTHER -> t

\* ramp_slope_ratio r is stored as r * SlopeDen
SlopeDen == 12 * 100

-----------------------------------------------------------------------------
(* rules.py: RuleStatus, Severity, OverallStatus and the rule catalogue *)

RuleStatus == {"PASS", "FAIL", "NOT_APPLICABLE", "NOT_CHECKED", "ERROR"}
Severity == {"CRITICAL", "WARNING", "INFO"}
OverallStatus == {"PASS", "FAIL", "PARTIAL", "ERROR"}

RULE_TURNING_CIRCLE ==
    [id |-> "BFS-2024:1-3:14", severity |-> "CRITICAL",
     applies_to |-> {"bathroom", "wc", "toilet"}]
RULE_DOOR_WIDTH ==
    [id |-> "BFS-2024:1-3:15", severity |-> "CRITICAL",
     applies_to |-> {"bathroom", "wc", "toilet"}]
RULE_THRESHOLD ==
    [id |-> "BFS-2024:1-3:16", severity |-> "WARNING",
     applies_to |-> {"bathroom", "wc", "toilet", "entrance"}]
RULE_CORRIDOR_WIDTH ==
    [id |-> "BFS-2024:1-3:22", severity |-> "CRITICAL",
     applies_to |-> {"corridor", "circulation", "passage", "hallway", "korridor"}]
RULE_RAMP_SLOPE ==
    [id |-> "BFS-2024:1-3:231", severity |-> "CRITICAL",
     applies_to |-> {"ramp", "rampway"}]
RULE_HANDRAIL_HEIGHT ==
    [id |-> "BFS-2024:1-3:232", severity |-> "CRITICAL",
     applies_to |-> {"ramp", "stair", "stairs", "trappa"}]
RULE_BATHROOM_DOOR_SWING ==
    [id |-> "BFS-2024:1-3:241", severity |-> "CRITICAL",
     applies_to |-> {"bathroom", "wc", "toilet"}]
RULE_REST_AREA_25M ==
    [id |-> "BFS-2024:1-3:311", severity |-> "WARNING",
     applies_to |-> {"corridor", "circulation", "passage", "hallway", "korridor"}]
RULE_ELEVATOR_SIZE ==
    [id |-> "BFS-2024:1-3:143", severity |-> "CRITICAL",
     applies_to |-> {"elevator", "lift", "hiss"}]
RULE_ELEVATOR_DOOR_WIDTH ==
    [id |-> "BFS-2024:1-3:144", severity |-> "CRITICAL",
     applies_to |-> {"elevator", "lift", "hiss"}]
RULE_EMERGENCY_EXIT_WIDTH ==
    [id |-> "BFS-2024:1-3:51", severity |-> "CRITICAL",
     applies_to |-> {"emergency_exit", "exit", "nodutgang", "utgang",
                     "emergency", "evacuation"}]
RULE_EMERGENCY_EXIT_DOOR_SWING ==
    [id |-> "BFS-2024:1-3:52", severity |-> "CRITICAL",
     applies_to |-> {"emergency_exit", "exit", "nodutgang", "utgang",
                     "emergency", "evacuation"}]
RULE_STAIR_DIMENSIONS ==
    [id |-> "BFS-2024:1-3:421", severity |-> "CRITICAL",
     applies_to |-> {"stair", "stairs", "trappa"}]
RULE_PARKING_WIDTH ==
    [id |-> "BFS-2024:1-3:131", severity |-> "CRITICAL",
     applies_to |-> {"parking", "parkeringsplats", "accessible_parking",
                     "parking_space"}]
RULE_PARKING_LENGTH ==
    [id |-> "BFS-2024:1-3:132", severity |-> "CRITICAL",
     applies_to |-> {"parking", "parkeringsplats", "accessible_parking",
                     "parking_space"}]
RULE_STAIR_HANDRAIL_BOTH ==
    [id |-> "BFS-2024:1-3:411", severity |-> "CRITICAL",
     applies_to |-> {"stair", "stairs", "trappa"}]
RULE_STAIR_WIDTH ==
    [id |-> "BFS-2024:1-3:412", severity |-> "CRITICAL",
     applies_to |-> {"stair", "stairs", "trappa"}]
RULE_WINDOW_SILL_HEIGHT ==
    [id |-> "BFS-2024:1-3:531", severity |-> "WARNING",
     applies_to |-> {"window", "fonster", "room", "rum", "space"}]
RULE_WINDOW_OPENING_SIZE ==
    [id |-> "BFS-2024:1-3:532", severity |-> "WARNING",
     applies_to |-> {"window", "fonster", "room", "rum", "space"}]
\* mutant: tactile guidance is informational only
RULE_TACTILE_GUIDANCE_INFO ==
    [id |-> "BFS-2024:1-3:611", severity |-> "INFO",
     applies_to |-> {"corridor", "circulation", "passage", "hallway", "korridor",
                     "public", "offentlig", "lobby", "entrance"}]

RULE_TACTILE_GUIDANCE ==
    [id |-> "BFS-2024:1-3:611", severity |-> "WARNING",
     applies_to |-> {"corridor", "circulation", "passage", "hallway", "korridor",
                     "public", "offentlig", "lobby", "entrance"}]

\* BFS2024ComplianceChecker.__init__: self.rules
rules ==
    << RULE_TURNING_CIRCLE, RULE_DOOR_WIDTH, RULE_THRESHOLD, RULE_CORRIDOR_WIDTH,
       RULE_RAMP_SLOPE, RULE_HANDRAIL_HEIGHT, RULE_BATHROOM_DOOR_SWING,
       RULE_REST_AREA_25M, RULE_ELEVATOR_SIZE, RULE_ELEVATOR_DOOR_WIDTH,
       RULE_EMERGENCY_EXIT_WIDTH, RULE_EMERGENCY_EXIT_DOOR_SWING,
       RULE_STAIR_DIMENSIONS, RULE_PARKING_WIDTH, RULE_PARKING_LENGTH,
       RULE_STAIR_HANDRAIL_BOTH, RULE_STAIR_WIDTH, RULE_WINDOW_SILL_HEIGHT,
       RULE_WINDOW_OPENING_SIZE, RULE_TACTILE_GUIDANCE >>

\* the RuleResult dataclass (rule_name, details and reference are texts that
\* no status depends on)
RuleResult(rule, status) ==
    [rule_id |-> rule.id, status |-> status, severity |-> rule.severity]

\* how a call ends: it returns a value or raises
Return(value) == [exc |-> "", value |-> value]
Raise(exc) == [exc |-> exc, value |-> RuleResult(RULE_TURNING_CIRCLE, "ERROR")]

\* space_type = space_dict.get("type", "").lower()
space_type_of(sd) == IF Has(sd, "type") THEN Lower(sd["type"]) ELSE ""

-----------------------------------------------------------------------------
(* rules.py: the 20 rule checks *)

\* the first lines of every rule: not applicable to this space type
Applies(rule, sd) == space_type_of(sd) \in rule.applies_to

\* BFS2024ComplianceChecker._calculate_min_space_width
Max(S) == CHOOSE m \in S : \A e \in S : e <= m
Min(S) == CHOOSE m \in S : \A e \in S : m <= e
Xs(boundary) == {boundary[i][1] : i \in 1..Len(boundary)}
Ys(boundary) == {boundary[i][2] : i \in 1..Len(boundary)}
_calculate_min_space_width(boundary) ==
    IF Len(boundary) < 3 THEN 0
    ELSE LET width_x == Max(Xs(boundary)) - Min(Xs(boundary))
             width_y == Max(Ys(boundary)) - Min(Ys(boundary))
         IN  IF width_x <= width_y THEN width_x ELSE width_y

\* mutant: the feasibility result is looked at before the space type
check_turning_circle_rule_result_first(sd, gr) ==
    LET rule == RULE_TURNING_CIRCLE IN
    IF gr.k = "none" THEN Return(RuleResult(rule, "ERROR"))
    ELSE IF ~Applies(rule, sd) THEN Return(RuleResult(rule, "NOT_APPLICABLE"))
    ELSE IF IsNone(sd, "id") \/ gr.space_id # sd["id"]
         THEN Return(RuleResult(rule, "ERROR"))
    ELSE IF gr.passed THEN Return(RuleResult(rule, "PASS"))
    ELSE Return(RuleResult(rule, "FAIL"))

\* mutant: the space_id of the feasibility result is not compared
check_turning_circle_rule_no_id_check(sd, gr) ==
    LET rule == RULE_TURNING_CIRCLE IN
    IF ~Applies(rule, sd) THEN Return(RuleResult(rule, "NOT_APPLICABLE"))
    ELSE IF gr.k = "none" THEN Return(RuleResult(rule, "ERROR"))
    ELSE IF gr.passed THEN Return(RuleResult(rule, "PASS"))
    ELSE Return(RuleResult(rule, "FAIL"))

check_turning_circle_rule(sd, gr) ==
    LET rule == RULE_TURNING_CIRCLE IN
    IF ~Applies(rule, sd) THEN Return(RuleResult(rule, "NOT_APPLICABLE"))
    ELSE IF gr.k = "none" THEN Return(RuleResult(rule, "ERROR"))
    ELSE IF IsNone(sd, "id") \/ gr.space_id # sd["id"]
         THEN Return(RuleResult(rule, "ERROR"))
    ELSE IF gr.passed THEN Return(RuleResult(rule, "PASS"))
    ELSE Return(RuleResult(rule, "FAIL"))

check_door_width_rule(sd) ==
    LET rule == RULE_DOOR_WIDTH
        boundary == sd["boundary"]
    IN
    IF ~Applies(rule, sd) THEN Return(RuleResult(rule, "NOT_APPLICABLE"))
    ELSE IF IsNone(sd, "boundary") \/ boundary.is_none
            \/ Len(boundary.pts) = 0 \/ Len(boundary.pts) < 3
         THEN Return(RuleResult(rule, "ERROR"))
    ELSE LET min_width == _calculate_min_space_width(boundary.pts)
             required_width == 900
         IN  IF min_width >= required_width
             THEN Return(RuleResult(rule, "PASS"))
             ELSE Return(RuleResult(rule, "FAIL"))

\* mutant: the rule that is not implemented applies to no room
check_threshold_rule_skipped(sd) ==
    Return(RuleResult(RULE_THRESHOLD, "NOT_APPLICABLE"))

\* mutant: the threshold counts as measured and in order
check_threshold_rule_pass(sd) ==
    LET rule == RULE_THRESHOLD IN
    IF ~Applies(rule, sd) THEN Return(RuleResult(rule, "NOT_APPLICABLE"))
    ELSE Return(RuleResult(rule, "PASS"))

\* mutant: a room without boundary is an error
check_threshold_rule_needs_boundary(sd) ==
    LET rule == RULE_THRESHOLD IN
    IF ~Applies(rule, sd) THEN Return(RuleResult(rule, "NOT_APPLICABLE"))
    ELSE IF IsNone(sd, "boundary") THEN Return(RuleResult(rule, "ERROR"))
    ELSE Return(RuleResult(rule, "NOT_CHECKED"))

check_threshold_rule(sd) ==
    LET rule == RULE_THRESHOLD IN
    IF ~Applies(rule, sd) THEN Return(RuleResult(rule, "NOT_APPLICABLE"))
    ELSE Return(RuleResult(rule, "NOT_CHECKED"))

\* mutant: a width of 0 is an error
check_corridor_width_rule_zero_error(sd) ==
    LET rule == RULE_CORRIDOR_WIDTH
        corridor_width_mm == sd["corridor_width_mm"]
        required_width == 1300
    IN
    IF ~Applies(rule, sd) THEN Return(RuleResult(rule, "NOT_APPLICABLE"))
    ELSE IF IsNone(sd, "corridor_width_mm") THEN Return(RuleResult(rule, "NOT_CHECKED"))
    ELSE IF corridor_width_mm = 0 THEN Return(RuleResult(rule, "ERROR"))
    ELSE IF corridor_width_mm >= required_width
         THEN Return(RuleResult(rule, "PASS"))
         ELSE Return(RuleResult(rule, "FAIL"))

\* mutant: the threshold itself fails
check_corridor_width_rule_strict(sd) ==
    LET rule == RULE_CORRIDOR_WIDTH
        corridor_width_mm == sd["corridor_width_mm"]
        required_width == 1300
    IN
    IF ~Applies(rule, sd) THEN Return(RuleResult(rule, "NOT_APPLICABLE"))
    ELSE IF IsNone(sd, "corridor_width_mm") THEN Return(RuleResult(rule, "NOT_CHECKED"))
    ELSE IF corridor_width_mm > required_width
         THEN Return(RuleResult(rule, "PASS"))
         ELSE Return(RuleResult(rule, "FAIL"))

check_corridor_width_rule(sd) ==
    LET rule == RULE_CORRIDOR_WIDTH
        corridor_width_mm == sd["corridor_width_mm"]
        required_width == 1300
    IN
    IF ~Applies(rule, sd) THEN Return(RuleResult(rule, "NOT_APPLICABLE"))
    ELSE IF IsNone(sd, "corridor_width_mm") THEN Return(RuleResult(rule, "NOT_CHECKED"))
    ELSE IF corridor_width_mm >= required_width
         THEN Return(RuleResult(rule, "PASS"))
         ELSE Return(RuleResult(rule, "FAIL"))

\* max_slope = 1 / 12; the PASS branch formats 1/slope_ratio into its details
check_ramp_slope_rule(sd) ==
    LET rule == RULE_RAMP_SLOPE
        slope_ratio == sd["ramp_slope_ratio"]
        max_slope == SlopeDen \div 12
    IN
    IF ~Applies(rule, sd) THEN Return(RuleResult(rule, "NOT_APPLICABLE"))
    ELSE IF IsNone(sd, "ramp_slope_ratio") THEN Return(RuleResult(rule, "NOT_CHECKED"))
    ELSE IF slope_ratio <= max_slope
         THEN IF slope_ratio = 0
              THEN Raise("ZeroDivisionError")
              ELSE Return(RuleResult(rule, "PASS"))
         ELSE Return(RuleResult(rule, "FAIL"))

check_handrail_height_rule(sd) ==
    LET rule == RULE_HANDRAIL_HEIGHT
        handrail_height_mm == sd["handrail_height_mm"]
        min_h == 900
        max_h == 1000
    IN
    IF ~Applies(rule, sd) THEN Return(RuleResult(rule, "NOT_APPLICABLE"))
    ELSE IF IsNone(sd, "handrail_height_mm") THEN Return(RuleResult(rule, "NOT_CHECKED"))
    ELSE IF min_h <= handrail_height_mm /\ handrail_height_mm <= max_h
         THEN Return(RuleResult(rule, "PASS"))
         ELSE Return(RuleResult(rule, "FAIL"))

\* "if door_opens_outward:" is Python's truth test: 0 and False are false
check_bathroom_door_swing_rule(sd) ==
    LET rule == RULE_BATHROOM_DOOR_SWING
        door_opens_outward == sd["door_opens_outward"]
    IN
    IF ~Applies(rule, sd) THEN Return(RuleResult(rule, "NOT_APPLICABLE"))
    ELSE IF IsNone(sd, "door_opens_outward") THEN Return(RuleResult(rule, "NOT_CHECKED"))
    ELSE IF door_opens_outward # 0
         THEN Return(RuleResult(rule, "PASS"))
         ELSE Return(RuleResult(rule, "FAIL"))

check_rest_area_25m_rule(sd) ==
    LET rule == RULE_REST_AREA_25M
        has_rest_areas_ok == sd["rest_area_25m_compliant"]
    IN
    IF ~Applies(rule, sd) THEN Return(RuleResult(rule, "NOT_APPLICABLE"))
    ELSE IF IsNone(sd, "rest_area_25m_compliant") THEN Return(RuleResult(rule, "NOT_CHECKED"))
    ELSE IF has_rest_areas_ok # 0
         THEN Return(RuleResult(rule, "PASS"))
         ELSE Return(RuleResult(rule, "FAIL"))

\* mutant: a dimension that is present is compared before the other one is
\* found to be missing
check_elevator_size_rule_eager(sd) ==
    LET rule == RULE_ELEVATOR_SIZE
        width_mm == sd["elevator_width_mm"]
        depth_mm == sd["elevator_depth_mm"]
        min_width == 1100
        min_depth == 1400
    IN
    IF ~Applies(rule, sd) THEN Return(RuleResult(rule, "NOT_APPLICABLE"))
    ELSE IF ~IsNone(sd, "elevator_width_mm") /\ width_mm < min_width
         THEN Return(RuleResult(rule, "FAIL"))
    ELSE IF ~IsNone(sd, "elevator_depth_mm") /\ depth_mm < min_depth
         THEN Return(RuleResult(rule, "FAIL"))
    ELSE IF IsNone(sd, "elevator_width_mm") \/ IsNone(sd, "elevator_depth_mm")
         THEN Return(RuleResult(rule, "NOT_CHECKED"))
    ELSE Return(RuleResult(rule, "PASS"))

check_elevator_size_rule(sd) ==
    LET rule == RULE_ELEVATOR_SIZE
        width_mm == sd["elevator_width_mm"]
        depth_mm == sd["elevator_depth_mm"]
        min_width == 1100
        min_depth == 1400
    IN
    IF ~Applies(rule, sd) THEN Return(RuleResult(rule, "NOT_APPLICABLE"))
    ELSE IF IsNone(sd, "elevator_width_mm") \/ IsNone(sd, "elevator_depth_mm")
         THEN Return(RuleResult(rule, "NOT_CHECKED"))
    ELSE IF width_mm >= min_width /\ depth_mm >= min_depth
         THEN Return(RuleResult(rule, "PASS"))
         ELSE Return(RuleResult(rule, "FAIL"))

check_elevator_door_width_rule(sd) ==
    LET rule == RULE_ELEVATOR_DOOR_WIDTH
        door_width_mm == sd["elevator_door_width_mm"]
        required == 800
    IN
    IF ~Applies(rule, sd) THEN Return(RuleResult(rule, "NOT_APPLICABLE"))
    ELSE IF IsNone(sd, "elevator_door_width_mm") THEN Return(RuleResult(rule, "NOT_CHECKED"))
    ELSE IF door_width_mm >= required
         THEN Return(RuleResult(rule, "PASS"))
         ELSE Return(RuleResult(rule, "FAIL"))

check_emergency_exit_width_rule(sd) ==
    LET rule == RULE_EMERGENCY_EXIT_WIDTH
        width_mm == sd["emergency_exit_width_mm"]
        required == 900
    IN
    IF ~Applies(rule, sd) THEN Return(RuleResult(rule, "NOT_APPLICABLE"))
    ELSE IF IsNone(sd, "emergency_exit_width_mm") THEN Return(RuleResult(rule, "NOT_CHECKED"))
    ELSE IF width_mm >= required
         THEN Return(RuleResult(rule, "PASS"))
         ELSE Return(RuleResult(rule, "FAIL"))

check_emergency_exit_door_swing_rule(sd) ==
    LET rule == RULE_EMERGENCY_EXIT_DOOR_SWING
        opens_outward == sd["emergency_exit_door_opens_outward"]
    IN
    IF ~Applies(rule, sd) THEN Return(RuleResult(rule, "NOT_APPLICABLE"))
    ELSE IF IsNone(sd, "emergency_exit_door_opens_outward") THEN Return(RuleResult(rule, "NOT_CHECKED"))
    ELSE IF opens_outward # 0
         THEN Return(RuleResult(rule, "PASS"))
         ELSE Return(RuleResult(rule, "FAIL"))

check_stair_dimensions_rule(sd) ==
    LET rule == RULE_STAIR_DIMENSIONS
        rise_mm == sd["stair_rise_mm"]
        run_mm == sd["stair_run_mm"]
        max_rise == 150
        min_run == 300
    IN
    IF ~Applies(rule, sd) THEN Return(RuleResult(rule, "NOT_APPLICABLE"))
    ELSE IF IsNone(sd, "stair_rise_mm") \/ IsNone(sd, "stair_run_mm")
         THEN Return(RuleResult(rule, "NOT_CHECKED"))
    ELSE IF rise_mm <= max_rise /\ run_mm >= min_run
         THEN Return(RuleResult(rule, "PASS"))
         ELSE Return(RuleResult(rule, "FAIL"))

check_parking_width_rule(sd) ==
    LET rule == RULE_PARKING_WIDTH
        width_mm == sd["parking_width_mm"]
        required == 3600
    IN
    IF ~Applies(rule, sd) THEN Return(RuleResult(rule, "NOT_APPLICABLE"))
    ELSE IF IsNone(sd, "parking_width_mm") THEN Return(RuleResult(rule, "NOT_CHECKED"))
    ELSE IF width_mm >= required
         THEN Return(RuleResult(rule, "PASS"))
         ELSE Return(RuleResult(rule, "FAIL"))

check_parking_length_rule(sd) ==
    LET rule == RULE_PARKING_LENGTH
        length_mm == sd["parking_length_mm"]
        required == 5000
    IN
    IF ~Applies(rule, sd) THEN Return(RuleResult(rule, "NOT_APPLICABLE"))
    ELSE IF IsNone(sd, "parking_length_mm") THEN Return(RuleResult(rule, "NOT_CHECKED"))
    ELSE IF length_mm >= required
         THEN Return(RuleResult(rule, "PASS"))
         ELSE Return(RuleResult(rule, "FAIL"))

check_stair_handrail_both_rule(sd) ==
    LET rule == RULE_STAIR_HANDRAIL_BOTH
        both_sides == sd["stair_handrail_both_sides"]
    IN
    IF ~Applies(rule, sd) THEN Return(RuleResult(rule, "NOT_APPLICABLE"))
    ELSE IF IsNone(sd, "stair_handrail_both_sides") THEN Return(RuleResult(rule, "NOT_CHECKED"))
    ELSE IF both_sides # 0
         THEN Return(RuleResult(rule, "PASS"))
         ELSE Return(RuleResult(rule, "FAIL"))

check_stair_width_rule(sd) ==
    LET rule == RULE_STAIR_WIDTH
        width_mm == sd["stair_width_mm"]
        required == 1200
    IN
    IF ~Applies(rule, sd) THEN Return(RuleResult(rule, "NOT_APPLICABLE"))
    ELSE IF IsNone(sd, "stair_width_mm") THEN Return(RuleResult(rule, "NOT_CHECKED"))
    ELSE IF width_mm >= required
         THEN Return(RuleResult(rule, "PASS"))
         ELSE Return(RuleResult(rule, "FAIL"))

check_window_sill_height_rule(sd) ==
    LET rule == RULE_WINDOW_SILL_HEIGHT
        sill_height_mm == sd["window_sill_height_mm"]
        max_height == 600
    IN
    IF ~Applies(rule, sd) THEN Return(RuleResult(rule, "NOT_APPLICABLE"))
    ELSE IF IsNone(sd, "window_sill_height_mm") THEN Return(RuleResult(rule, "NOT_CHECKED"))
    ELSE IF sill_height_mm <= max_height
         THEN Return(RuleResult(rule, "PASS"))
         ELSE Return(RuleResult(rule, "FAIL"))

check_window_opening_size_rule(sd) ==
    LET rule == RULE_WINDOW_OPENING_SIZE
        width_mm == sd["window_opening_width_mm"]
        height_mm == sd["window_opening_height_mm"]
        min_width == 900
        min_height == 1200
    IN
    IF ~Applies(rule, sd) THEN Return(RuleResult(rule, "NOT_APPLICABLE"))
    ELSE IF IsNone(sd, "window_opening_width_mm") \/ IsNone(sd, "window_opening_height_mm")
         THEN Return(RuleResult(rule, "NOT_CHECKED"))
    ELSE IF width_mm >= min_width /\ height_mm >= min_height
         THEN Return(RuleResult(rule, "PASS"))
         ELSE Return(RuleResult(rule, "FAIL"))

check_tactile_guidance_rule(sd) ==
    LET rule == RULE_TACTILE_GUIDANCE
        has_guidance == sd["tactile_guidance_present"]
    IN
    IF ~Applies(rule, sd) THEN Return(RuleResult(rule, "NOT_APPLICABLE"))
    ELSE IF IsNone(sd, "tactile_guidance_present") THEN Return(RuleResult(rule, "NOT_CHECKED"))
    ELSE IF has_guidance # 0
         THEN Return(RuleResult(rule, "PASS"))
         ELSE Return(RuleResult(rule, "FAIL"))

-----------------------------------------------------------------------------
(* rules.py: validation, aggregation and check_compliance *)

\* mutant: only the id is required
_validate_space_dict_id_only(sd) ==
    IF ~Has(sd, "id") THEN "ValueError" ELSE ""

\* BFS2024ComplianceChecker._validate_space_dict: the missing required fields
_validate_space_dict(sd) ==
    LET required_fields == {"id", "type"}
        missing == {f \in required_fields : ~Has(sd, f)}
    IN  IF missing # {} THEN "ValueError" ELSE ""

\* mutant: critical failures are looked for before errors
_calculate_overall_status_fail_first(rr) ==
    LET idx == 1..Len(rr)
    IN  IF \E i \in idx : rr[i].status = "FAIL" /\ rr[i].severity = "CRITICAL"
        THEN "FAIL"
        ELSE IF \E i \in idx : rr[i].status = "ERROR" THEN "ERROR"
        ELSE IF \E i \in idx :
                   \/ rr[i].status = "NOT_CHECKED"
                   \/ rr[i].status = "FAIL" /\ rr[i].severity = "WARNING"
        THEN "PARTIAL"
        ELSE "PASS"

\* BFS2024ComplianceChecker._calculate_overall_status
_calculate_overall_status(rr) ==
    LET idx == 1..Len(rr)
        critical_fails ==
            {i \in idx : rr[i].status = "FAIL" /\ rr[i].severity = "CRITICAL"}
        has_not_checked == \E i \in idx : rr[i].status = "NOT_CHECKED"
        has_warning_fails ==
            \E i \in idx : rr[i].status = "FAIL" /\ rr[i].severity = "WARNING"
    IN  IF \E i \in idx : rr[i].status = "ERROR" THEN "ERROR"
        ELSE IF critical_fails # {} THEN "FAIL"
        ELSE IF has_not_checked \/ has_warning_fails THEN "PARTIAL"
        ELSE "PASS"

\* the i-th rule check that check_compliance calls
CallRule(i, sd, gr) ==
    CASE i = 1 -> check_turning_circle_rule(sd, gr)
      [] i = 2 -> check_door_width_rule(sd)
      [] i = 3 -> check_threshold_rule(sd)
      [] i = 4 -> check_corridor_width_rule(sd)
      [] i = 5 -> check_ramp_slope_rule(sd)
      [] i = 6 -> check_handrail_height_rule(sd)
      [] i = 7 -> check_bathroom_door_swing_rule(sd)
      [] i = 8 -> check_rest_area_25m_rule(sd)
      [] i = 9 -> check_elevator_size_rule(sd)
      [] i = 10 -> check_elevator_door_width_rule(sd)
      [] i = 11 -> check_emergency_exit_width_rule(sd)
      [] i = 12 -> check_emergency_exit_door_swing_rule(sd)
      [] i = 13 -> check_stair_dimensions_rule(sd)
      [] i = 14 -> check_parking_width_rule(sd)
      [] i = 15 -> check_parking_length_rule(sd)
      [] i = 16 -> check_stair_handrail_both_rule(sd)
      [] i = 17 -> check_stair_width_rule(sd)
      [] i = 18 -> check_window_sill_height_rule(sd)
      [] i = 19 -> check_window_opening_size_rule(sd)
      [] i = 20 -> check_tactile_guidance_rule(sd)

\* the number of rule checks check_compliance appends
NumRuleCalls == 20

\* mutant: a rule that yields ERROR ends the evaluation
RECURSIVE RunRulesStopOnError(_, _, _, _)
RunRulesStopOnError(i, acc, sd, gr) ==
    IF i > NumRuleCalls \/ (Len(acc) > 0 /\ acc[Len(acc)].status = "ERROR")
    THEN [exc |-> "", rule_results |-> acc]
    ELSE LET r == CallRule(i, sd, gr)
         IN  IF r.exc # "" THEN [exc |-> r.exc, rule_results |-> acc]
             ELSE RunRulesStopOnError(i + 1, Append(acc, r.value), sd, gr)

\* rule_results.append(...) for the checks from the i-th on; a check that
\* raises ends the call with the list as it stands
RECURSIVE RunRules(_, _, _, _)
RunRules(i, acc, sd, gr) ==
    IF i > NumRuleCalls THEN [exc |-> "", rule_results |-> acc]
    ELSE LET r == CallRule(i, sd, gr)
         IN  IF r.exc # "" THEN [exc |-> r.exc, rule_results |-> acc]
             ELSE RunRules(i + 1, Append(acc, r.value), sd, gr)

\* mutant: rules that are not applicable count as passed
CountWithNotApplicable(rr, status) ==
    Cardinality({i \in 1..Len(rr) :
                    \/ rr[i].status = status
                    \/ status = "PASS" /\ rr[i].status = "NOT_APPLICABLE"})

\* sum(1 for r in rule_results if r.status == status)
Count(rr, status) == Cardinality({i \in 1..Len(rr) : rr[i].status = status})

NoResult ==
    [k |-> "none", space_id |-> "", space_type |-> "", overall_status |-> "",
     passed_count |-> 0, failed_count |-> 0,
     not_checked_count |-> 0]

\* BFS2024ComplianceChecker.check_compliance: what it raises, the local list
\* rule_results at that point, and the ComplianceResult it returns (whose
\* rules_checked is that list)
check_compliance(sd, gr) ==
    IF _validate_space_dict(sd) # ""
    THEN [exc |-> _validate_space_dict(sd), rule_results |-> <<>>,
          result |-> NoResult]
    ELSE LET run == RunRules(1, <<>>, sd, gr)
             rr == run.rule_results
         IN  IF run.exc # ""
             THEN [exc |-> run.exc, rule_results |-> rr, result |-> NoResult]
             ELSE [exc |-> "", rule_results |-> rr,
                   result |->
                     [k |-> "val",
                      space_id |-> IF Has(sd, "id") THEN sd["id"] ELSE "unknown",
                      space_type |->
                        IF Has(sd, "type") THEN Lower(sd["type"]) ELSE "unknown",
                      overall_status |-> _calculate_overall_status(rr),
                      passed_count |-> Count(rr, "PASS"),
                      failed_count |-> Count(rr, "FAIL"),
                      not_checked_count |-> Count(rr, "NOT_CHECKED")]]

-----------------------------------------------------------------------------
(* geometry.py: check_turning_circle *)

radius_mm == 750
grid_spacing == 100
circle_diameter_mm == 1500

\* Boundary coordinates of the model are multiples of Unit; the geometry is
\* computed exactly, in integers, on coordinates divided by Unit.  On this
\* lattice no polygon edge or corner is nearer than 750 to a candidate centre
\* yet outside the 64-sided polygon that buffer(750) returns (a 64-gon through
\* the four axis points of the circle, of inradius above 749), so containing
\* the buffer and containing the disc are the same test.
Unit == grid_spacing \div 2
U(pts) == [i \in 1..Len(pts) |-> <<pts[i][1] \div Unit, pts[i][2] \div Unit>>]

\* the edges of the ring through the points: <<a, b>> pairs, closing edge last
Edges(pts) ==
    [i \in 1..Len(pts) |-> <<pts[i], pts[(i % Len(pts)) + 1]>>]

Cross(o, a, b) ==
    (a[1] - o[1]) * (b[2] - o[2]) - (a[2] - o[2]) * (b[1] - o[1])
Dot(o, a, b) ==
    (a[1] - o[1]) * (b[1] - o[1]) + (a[2] - o[2]) * (b[2] - o[2])
Sign(n) == IF n > 0 THEN 1 ELSE IF n < 0 THEN 0 - 1 ELSE 0

\* p lies on the closed segment a-b
OnSegment(p, a, b) == Cross(a, b, p) = 0 /\ Dot(p, a, b) <= 0

\* the closed segments a-b and c-d have a point in common
SegmentsMeet(a, b, c, d) ==
    \/ /\ Sign(Cross(a, b, c)) * Sign(Cross(a, b, d)) < 0
       /\ Sign(Cross(c, d, a)) * Sign(Cross(c, d, b)) < 0
    \/ OnSegment(c, a, b) \/ OnSegment(d, a, b)
    \/ OnSegment(a, c, d) \/ OnSegment(b, c, d)

\* twice the signed area of the ring
RECURSIVE Area2From(_, _)
Area2From(pts, i) ==
    IF i > Len(pts) THEN 0
    ELSE LET a == pts[i]
             b == pts[(i % Len(pts)) + 1]
         IN  a[1] * b[2] - a[2] * b[1] + Area2From(pts, i + 1)

\* Polygon(boundary).is_valid: the ring has area and does not cross or touch
\* itself (edges next to each other share their common point only)
is_valid(pts) ==
    LET n == Len(pts)
        e == Edges(pts)
        Adjacent(i, j) == j = i + 1 \/ (i = 1 /\ j = n)
        Shared(i, j) == IF j = i + 1 THEN e[i][2] ELSE e[i][1]
        Other(k, q) == IF e[k][1] = q THEN e[k][2] ELSE e[k][1]
    IN  /\ Area2From(pts, 1) # 0
        /\ \A i \in 1..n : e[i][1] # e[i][2]
        /\ \A i \in 1..n, j \in 1..n :
              i < j =>
                IF Adjacent(i, j)
                THEN LET q == Shared(i, j)
                     IN  /\ ~OnSegment(Other(i, q), e[j][1], e[j][2])
                         /\ ~OnSegment(Other(j, q), e[i][1], e[i][2])
                ELSE ~SegmentsMeet(e[i][1], e[i][2], e[j][1], e[j][2])

\* polygon.bounds
bounds(pts) ==
    [minx |-> Min(Xs(pts)), miny |-> Min(Ys(pts)),
     maxx |-> Max(Xs(pts)), maxy |-> Max(Ys(pts))]

\* np.arange(start, stop, step): ceil((stop - start) / step) values from start
CeilDiv(a, b) == (a + b - 1) \div b

\* mutant: a stop that is on the grid is a value too
arange_with_stop(start, stop, step) ==
    LET n == IF stop >= start THEN (stop - start) \div step + 1 ELSE 0
    IN  [i \in 1..n |-> start + (i - 1) * step]

arange(start, stop, step) ==
    LET n == IF stop > start THEN CeilDiv(stop - start, step) ELSE 0
    IN  [i \in 1..n |-> start + (i - 1) * step]

\* polygon.contains(Point(x, y)): the point is in the interior; an edge that
\* passes the height of the point is crossed by the ray to the right of it
ContainsPoint(pts, p) ==
    LET e == Edges(pts)
        Crosses(a, b) ==
            /\ (a[2] > p[2]) # (b[2] > p[2])
            /\ IF b[2] > a[2]
               THEN (p[1] - a[1]) * (b[2] - a[2]) < (p[2] - a[2]) * (b[1] - a[1])
               ELSE (p[1] - a[1]) * (b[2] - a[2]) > (p[2] - a[2]) * (b[1] - a[1])
        crossings == {i \in 1..Len(pts) : Crosses(e[i][1], e[i][2])}
    IN  /\ \A i \in 1..Len(pts) : ~OnSegment(p, e[i][1], e[i][2])
        /\ Cardinality(crossings) % 2 = 1

\* the segment a-b comes nearer than r to p
SegmentWithin(p, a, b, r) ==
    LET len2 == Dot(a, b, b)
        t == Dot(a, p, b)
    IN  IF t <= 0 THEN Dot(p, a, a) < r * r
        ELSE IF t >= len2 THEN Dot(p, b, b) < r * r
        ELSE Cross(a, b, p) * Cross(a, b, p) < r * r * len2

\* mutant: the circle may not touch the boundary
ContainsCircleStrict(pts, p, r) ==
    LET e == Edges(pts)
    IN  \A i \in 1..Len(pts) : ~SegmentWithin(p, e[i][1], e[i][2], r + 1)

\* mutant: only the corners of the polygon are kept out of the circle
ContainsCircleCornersOnly(pts, p, r) ==
    \A i \in 1..Len(pts) : Dot(p, pts[i], pts[i]) >= r * r

\* polygon.contains(center_point.buffer(radius_mm)), the centre being inside
ContainsCircle(pts, p, r) ==
    LET e == Edges(pts)
    IN  \A i \in 1..Len(pts) : ~SegmentWithin(p, e[i][1], e[i][2], r)

NoCenter == [k |-> "none", x |-> 0, y |-> 0]
Center(x, y) == [k |-> "val", x |-> x, y |-> y]

\* mutant: the result does not carry the id of the room
FeasibilityUnknownId(sd, passed, center, details, count) ==
    [k |-> "val",
     space_id |-> "unknown",
     passed |-> passed,
     circle_diameter_mm |-> circle_diameter_mm,
     circle_center |-> center,
     collision_details |-> details,
     count |-> count]

\* the result dict; collision_details is the kind of text it holds, with
\* the point count the text names
Feasibility(sd, passed, center, details, count) ==
    [k |-> "val",
     space_id |-> IF Has(sd, "id") THEN sd["id"] ELSE "unknown",
     passed |-> passed,
     circle_diameter_mm |-> circle_diameter_mm,
     circle_center |-> center,
     collision_details |-> details,
     count |-> count]

\* mutant: the loops are nested the other way round, y outside, x inside
CandidatesYOuter(b) ==
    LET x_points == arange(b.minx + radius_mm, b.maxx - radius_mm + grid_spacing,
                           grid_spacing)
        y_points == arange(b.miny + radius_mm, b.maxy - radius_mm + grid_spacing,
                           grid_spacing)
        nx == Len(x_points)
    IN  [i \in 1..(nx * Len(y_points)) |->
            <<x_points[((i - 1) % nx) + 1], y_points[((i - 1) \div nx) + 1]>>]

\* the candidates in the order of the two loops: x outside, y inside
Candidates(b) ==
    LET x_points == arange(b.minx + radius_mm, b.maxx - radius_mm + grid_spacing,
                           grid_spacing)
        y_points == arange(b.miny + radius_mm, b.maxy - radius_mm + grid_spacing,
                           grid_spacing)
        ny == Len(y_points)
    IN  [i \in 1..(Len(x_points) * ny) |->
            <<x_points[((i - 1) \div ny) + 1], y_points[((i - 1) % ny) + 1]>>]

\* the first candidate that is inside the polygon with its circle, 0 if none
FirstFit(pts, cand) ==
    LET up == U(pts)
        r == radius_mm \div Unit
        fits == {i \in 1..Len(cand) :
                    LET c == <<cand[i][1] \div Unit, cand[i][2] \div Unit>>
                    IN  ContainsPoint(up, c) /\ ContainsCircle(up, c, r)}
    IN  IF fits = {} THEN 0 ELSE Min(fits)

\* some candidate centre is inside the polygon (best_center is then set)
AnyInside(pts, cand) ==
    \E i \in 1..Len(cand) :
        ContainsPoint(U(pts), <<cand[i][1] \div Unit, cand[i][2] \div Unit>>)

check_turning_circle(sd) ==
    IF ~Has(sd, "boundary")
    THEN Return(Feasibility(sd, FALSE, NoCenter, "ERROR: No boundary data", 0))
    ELSE LET boundary == sd["boundary"] IN
    IF boundary.is_none
    THEN Raise("TypeError")
    ELSE LET pts == boundary.pts IN
    IF Len(pts) < 3
    THEN Return(Feasibility(sd, FALSE, NoCenter, "ERROR: Boundary has only n points",
                            Len(pts)))
    ELSE IF ~is_valid(U(pts))
    THEN Return(Feasibility(sd, FALSE, NoCenter, "ERROR: Invalid polygon geometry", 0))
    ELSE LET cand == Candidates(bounds(pts))
             first == FirstFit(pts, cand)
         IN  IF first # 0
             THEN Return(Feasibility(sd, TRUE,
                                     Center(cand[first][1], cand[first][2]),
                                     "Turning circle successfully fits", 0))
             ELSE IF AnyInside(pts, cand)
             THEN Return(Feasibility(sd, FALSE, NoCenter,
                                     "FAIL: No valid turning circle position found", 0))
             ELSE Return(Feasibility(sd, FALSE, NoCenter,
                                     "FAIL: Space dimensions are too small", 0))

-----------------------------------------------------------------------------
(* The inputs of the model *)

AttrNames ==
    {"corridor_width_mm", "ramp_slope_ratio", "handrail_height_mm",
     "door_opens_outward", "rest_area_25m_compliant", "elevator_width_mm",
     "elevator_depth_mm", "elevator_door_width_mm", "emergency_exit_width_mm",
     "emergency_exit_door_opens_outward", "stair_rise_mm", "stair_run_mm",
     "parking_width_mm", "parking_length_mm", "stair_handrail_both_sides",
     "stair_width_mm", "window_sill_height_mm", "window_opening_width_mm",
     "window_opening_height_mm", "tactile_guidance_present"}

\* the values an attribute takes when present: 0 or False, the threshold and
\* its neighbours; slopes are 0, 0.05, 1/12, 0.10 and the percentages 5 and 10
AttrValues(a) ==
    CASE a = "corridor_width_mm" -> {0, 1299, 1300}
      [] a = "ramp_slope_ratio" ->
            {0, SlopeDen \div 20, SlopeDen \div 12, SlopeDen \div 10,
             5 * SlopeDen, 10 * SlopeDen}
      [] a = "handrail_height_mm" -> {899, 900, 1000, 1001}
      [] a = "elevator_width_mm" -> {1099, 1100}
      [] a = "elevator_depth_mm" -> {1399, 1400}
      [] a = "elevator_door_width_mm" -> {799, 800}
      [] a = "emergency_exit_width_mm" -> {899, 900}
      [] a = "stair_rise_mm" -> {150, 151}
      [] a = "stair_run_mm" -> {299, 300}
      [] a = "parking_width_mm" -> {3599, 3600}
      [] a = "parking_length_mm" -> {4999, 5000}
      [] a = "stair_width_mm" -> {1199, 1200}
      [] a = "window_sill_height_mm" -> {0, 600, 601}
      [] a = "window_opening_width_mm" -> {899, 900}
      [] a = "window_opening_height_mm" -> {1199, 1200}
      [] OTHER -> {0, 1}

\* a boundary value: None, or a list of points
Boundary(pts) == [is_none |-> FALSE, pts |-> pts]
NoneBoundary == [is_none |-> TRUE, pts |-> <<>>]

Rect(w, h) == << <<0, 0>>, <<w, 0>>, <<w, h>>, <<0, h>> >>

\* boundaries for the rule engine: empty, two points, and rectangles whose
\* smaller side is below, at and above 900
RuleBoundaries ==
    { <<>>, << <<0, 0>>, <<1000, 0>> >>, Rect(800, 3000), Rect(900, 1500),
      Rect(3000, 2500) }

TheId == "space_001"
OtherId == "space_999"

\* a feasibility result as a caller builds it by hand (rules.py run_tests)
GeometryResult(id, passed) ==
    [k |-> "val", space_id |-> id, passed |-> passed]
NoGeometry == [k |-> "none", space_id |-> "", passed |-> FALSE]

\* the room types fed in: tags of every rule's applies_to, tags of none, and
\* a tag in upper case
TypeInputs ==
    {"bathroom", "wc", "toilet", "entrance", "corridor", "ramp", "stair",
     "elevator", "emergency_exit", "parking", "window", "lobby", "other",
     "Bathroom"}

\* the places where an evaluation may differ from the bare one, and the
\* values each may take
Slots == AttrNames \cup {"omit_id", "boundary", "geometry_result"}
SlotValues(s) ==
    CASE s = "omit_id" -> {TRUE}
      [] s = "boundary" -> {Boundary(b) : b \in RuleBoundaries}
      [] s = "geometry_result" ->
            {GeometryResult(i, p) : i \in {TheId, OtherId}, p \in BOOLEAN}
      [] OTHER -> AttrValues(s)

\* every choice of at most n places
RECURSIVE Configs(_)
Configs(n) ==
    IF n = 0 THEN {<<>>}
    ELSE LET less == Configs(n - 1)
         IN  less \cup
             UNION { UNION { {c @@ (s :> e) : e \in SlotValues(s)}
                             : s \in Slots \ DOMAIN c }
                     : c \in less }

\* the room record of a choice: the type tag ("" for a record without type)
\* and the keys chosen
MkSpace(type, c) ==
    LET keys == (DOMAIN c) \cap (AttrNames \cup {"boundary"})
    IN  [key \in keys |-> c[key]]
        @@ (IF Has(c, "omit_id") THEN <<>> ELSE ("id" :> TheId))
        @@ (IF type = "" THEN <<>> ELSE ("type" :> type))
MkGeometry(c) ==
    IF Has(c, "geometry_result") THEN c["geometry_result"] ELSE NoGeometry

\* the value of an attribute that meets its rule
PassingValue(a) ==
    CASE a = "corridor_width_mm" -> 1300
      [] a = "ramp_slope_ratio" -> SlopeDen \div 12
      [] a = "handrail_height_mm" -> 900
      [] a = "elevator_width_mm" -> 1100
      [] a = "elevator_depth_mm" -> 1400
      [] a = "elevator_door_width_mm" -> 800
      [] a = "emergency_exit_width_mm" -> 900
      [] a = "stair_rise_mm" -> 150
      [] a = "stair_run_mm" -> 300
      [] a = "parking_width_mm" -> 3600
      [] a = "parking_length_mm" -> 5000
      [] a = "stair_width_mm" -> 1200
      [] a = "window_sill_height_mm" -> 600
      [] a = "window_opening_width_mm" -> 900
      [] a = "window_opening_height_mm" -> 1200
      [] OTHER -> 1

\* a room that is given every attribute, with a value that meets its rule,
\* a boundary that is wide enough and a passed feasibility result of its own
FullConfig ==
    [a \in AttrNames |-> PassingValue(a)]
    @@ ("boundary" :> Boundary(Rect(3000, 2500)))
    @@ ("geometry_result" :> GeometryResult(TheId, TRUE))

\* that room, and the rooms that differ from it in one place: one attribute,
\* the boundary or the feasibility result is left out or has another value
NearFullConfigs ==
    {FullConfig}
    \cup {[t \in DOMAIN FullConfig \ {s} |-> FullConfig[t]] : s \in DOMAIN FullConfig}
    \cup UNION {{[FullConfig EXCEPT ![s] = e] : e \in SlotValues(s)}
                  : s \in DOMAIN FullConfig}

-----------------------------------------------------------------------------
(* The rule engine called on one room *)

\* no batch is being processed
NoBatch ==
    /\ spaces = <<>>
    /\ geometry_results = <<>>
    /\ compliance_results = <<>>
    /\ exported = <<>>

Init ==
    /\ \E c \in Configs(MaxOptional) \cup NearFullConfigs,
          type \in {""} \cup TypeInputs :
          /\ space_dict = MkSpace(type, c)
          /\ geometry_result = MkGeometry(c)
    /\ rule_results = <<>>
    /\ result = NoResult
    /\ raised = ""
    /\ pc = "start"
    /\ NoBatch

\* result = checker.check_compliance(space, geometry_result)
CheckCompliance ==
    /\ pc = "start"
    /\ LET out == check_compliance(space_dict, geometry_result)
       IN  /\ rule_results' = out.rule_results
           /\ result' = out.result
           /\ raised' = out.exc
    /\ pc' = "done"
    /\ UNCHANGED <<space_dict, geometry_result, batch_vars>>

Next == CheckCompliance

Spec == Init /\ [][Next]_vars

-----------------------------------------------------------------------------
(* The pipeline on one room: check_turning_circle, then check_compliance *)

RectAt(ox, oy, w, h) ==
    << <<ox, oy>>, <<ox + w, oy>>, <<ox + w, oy + h>>, <<ox, oy + h>> >>

GeoSides == {circle_diameter_mm + d * Unit : d \in (0 - MaxDelta)..MaxDelta}

\* the boundaries of geometry.py's test cases 1 to 5, 7 and 8
TestBoundaries ==
    { Rect(3000, 2500), Rect(1200, 1800),
      << <<0, 0>>, <<3000, 0>>, <<3000, 1500>>, <<1500, 1500>>, <<1500, 3000>>,
         <<0, 3000>> >>,
      Rect(5000, 1000), Rect(1600, 1600),
      << <<0, 0>>, <<1000, 0>> >>,
      << <<0, 0>>, <<2500, 0>>, <<2500, 1000>>, <<2000, 1000>>, <<2000, 2000>>,
         <<2500, 2000>>, <<2500, 3000>>, <<0, 3000>> >> }

\* further shapes: no points, a thin U, a thin L, an L whose corner at the
\* origin of the grid is cut out, a triangle, a bow tie,
\* three points on a line, a ring that runs back over itself
OtherBoundaries ==
    { <<>>,
      << <<0, 0>>, <<3000, 0>>, <<3000, 3000>>, <<2500, 3000>>, <<2500, 500>>,
         <<500, 500>>, <<500, 3000>>, <<0, 3000>> >>,
      << <<0, 0>>, <<3000, 0>>, <<3000, 500>>, <<500, 500>>, <<500, 3000>>,
         <<0, 3000>> >>,
      << <<1500, 0>>, <<3000, 0>>, <<3000, 3000>>, <<0, 3000>>, <<0, 1500>>,
         <<1500, 1500>> >>,
      << <<0, 0>>, <<4000, 0>>, <<0, 4000>> >>,
      << <<0, 0>>, <<2000, 2000>>, <<2000, 0>>, <<0, 2000>> >>,
      << <<0, 0>>, <<1000, 0>>, <<2000, 0>> >>,
      << <<0, 0>>, <<2000, 0>>, <<1000, 0>>, <<1000, 2000>> >> }

GeoBoundaries ==
    {NoneBoundary}
    \cup {Boundary(b) : b \in TestBoundaries \cup OtherBoundaries}
    \cup {Boundary(RectAt(o[1], o[2], w, h)) :
            o \in {<<0, 0>>, <<50, 100>>}, w \in GeoSides, h \in GeoSides}

GeoTypes == {"bathroom", "circulation"}

InitGeo ==
    /\ \E type \in GeoTypes :
          \/ space_dict = ("id" :> TheId) @@ ("type" :> type)
          \/ \E b \in GeoBoundaries :
                space_dict =
                    ("id" :> TheId) @@ ("type" :> type) @@ ("boundary" :> b)
    /\ geometry_result = NoGeometry
    /\ rule_results = <<>>
    /\ result = NoResult
    /\ raised = ""
    /\ pc = "geometry"
    /\ NoBatch

\* geometry_result = check_turning_circle(space); an exception ends the run
CheckTurningCircle ==
    /\ pc = "geometry"
    /\ LET out == check_turning_circle(space_dict)
       IN  IF out.exc # ""
           THEN /\ raised' = out.exc
                /\ pc' = "done"
                /\ UNCHANGED geometry_result
           ELSE /\ geometry_result' = out.value
                /\ pc' = "start"
                /\ UNCHANGED raised
    /\ UNCHANGED <<space_dict, rule_results, result, batch_vars>>

NextGeo == CheckTurningCircle \/ CheckCompliance

SpecGeo == InitGeo /\ [][NextGeo]_vars

-----------------------------------------------------------------------------
(* The pipeline on a batch of rooms: check_multiple_spaces, then
   check_compliance room by room, then the export of the results *)

\* the longest batch
MaxRooms == 3

\* the rooms a batch is made of: a bathroom that passes, a small bathroom
\* whose door opens inward, a bathroom without boundary, a level ramp, a
\* corridor whose boundary is None, a corridor of the required width
BatchRooms ==
    { ("id" :> "space_001") @@ ("type" :> "bathroom")
        @@ ("boundary" :> Boundary(Rect(3000, 2500))),
      ("id" :> "space_002") @@ ("type" :> "bathroom")
        @@ ("boundary" :> Boundary(Rect(1200, 1800)))
        @@ ("door_opens_outward" :> 0),
      ("id" :> "space_003") @@ ("type" :> "bathroom"),
      ("id" :> "space_004") @@ ("type" :> "ramp") @@ ("ramp_slope_ratio" :> 0),
      ("id" :> "space_005") @@ ("type" :> "corridor")
        @@ ("boundary" :> NoneBoundary),
      ("id" :> "space_006") @@ ("type" :> "corridor")
        @@ ("corridor_width_mm" :> 1300) }

\* mutant: the results are put in front of the list, the last room's first
check_multiple_spaces_reversed(spaces_list) ==
    LET idx == 1..Len(spaces_list)
        faulty == {i \in idx : check_turning_circle(spaces_list[i]).exc # ""}
    IN  IF faulty # {}
        THEN [exc |-> check_turning_circle(spaces_list[Min(faulty)]).exc,
              value |-> <<>>]
        ELSE [exc |-> "",
              value |-> [i \in idx |->
                  check_turning_circle(
                      spaces_list[Len(spaces_list) + 1 - i]).value]]

\* geometry.check_multiple_spaces: the list of results, or the exception of
\* the first room whose check raises
check_multiple_spaces(spaces_list) ==
    LET idx == 1..Len(spaces_list)
        faulty == {i \in idx : check_turning_circle(spaces_list[i]).exc # ""}
    IN  IF faulty # {}
        THEN [exc |-> check_turning_circle(spaces_list[Min(faulty)]).exc,
              value |-> <<>>]
        ELSE [exc |-> "",
              value |-> [i \in idx |-> check_turning_circle(spaces_list[i]).value]]

\* the ComplianceResult object check_compliance returned
ComplianceResult(out) ==
    [space_id |-> out.result.space_id,
     space_type |-> out.result.space_type,
     overall_status |-> out.result.overall_status,
     rules_checked |-> out.rule_results,
     passed_count |-> out.result.passed_count,
     failed_count |-> out.result.failed_count,
     not_checked_count |-> out.result.not_checked_count]

\* mutant: both kinds of "not" are written alike
RuleStatusValueShort(status) ==
    CASE status = "PASS" -> "PASS"
      [] status = "FAIL" -> "FAIL"
      [] status = "NOT_APPLICABLE" -> "NOT"
      [] status = "NOT_CHECKED" -> "NOT"
      [] status = "ERROR" -> "ERROR"

\* RuleStatus.<member>.value
RuleStatusValue(status) ==
    CASE status = "PASS" -> "PASS"
      [] status = "FAIL" -> "FAIL"
      [] status = "NOT_APPLICABLE" -> "NOT_APPLICABLE"
      [] status = "NOT_CHECKED" -> "NOT_CHECKED"
      [] status = "ERROR" -> "ERROR"

\* Severity.<member>.value
SeverityValue(severity) ==
    CASE severity = "CRITICAL" -> "CRITICAL"
      [] severity = "WARNING" -> "WARNING"
      [] severity = "INFO" -> "INFO"

\* OverallStatus.<member>.value
OverallStatusValue(status) ==
    CASE status = "PASS" -> "PASS"
      [] status = "FAIL" -> "FAIL"
      [] status = "PARTIAL" -> "PARTIAL"
      [] status = "ERROR" -> "ERROR"

\* RuleResult.to_dict
RuleResult_to_dict(r) ==
    [rule_id |-> r.rule_id,
     status |-> RuleStatusValue(r.status),
     severity |-> SeverityValue(r.severity)]

\* ComplianceResult.to_dict
ComplianceResult_to_dict(r) ==
    [space_id |-> r.space_id,
     space_type |-> r.space_type,
     overall_status |-> OverallStatusValue(r.overall_status),
     rules_checked |->
        [i \in 1..Len(r.rules_checked) |-> RuleResult_to_dict(r.rules_checked[i])],
     passed_count |-> r.passed_count,
     failed_count |-> r.failed_count,
     not_checked_count |-> r.not_checked_count]

InitBatch ==
    /\ spaces \in UNION {[1..n -> BatchRooms] : n \in 0..MaxRooms}
    /\ geometry_results = <<>>
    /\ compliance_results = <<>>
    /\ exported = <<>>
    /\ space_dict = <<>>
    /\ geometry_result = NoGeometry
    /\ rule_results = <<>>
    /\ result = NoResult
    /\ raised = ""
    /\ pc = "batch_geometry"

\* mutant: the check writes its verdict into the room record
CheckMultipleSpacesAnnotating ==
    /\ pc = "batch_geometry"
    /\ LET out == check_multiple_spaces(spaces)
       IN  IF out.exc # ""
           THEN /\ raised' = out.exc
                /\ pc' = "aborted"
                /\ UNCHANGED <<geometry_results, spaces>>
           ELSE /\ geometry_results' = out.value
                /\ spaces' = [i \in 1..Len(spaces) |->
                       ("turning_circle_passed" :>
                           (IF out.value[i].passed THEN 1 ELSE 0))
                       @@ spaces[i]]
                /\ pc' = "batch_compliance"
                /\ UNCHANGED raised
    /\ UNCHANGED <<space_dict, geometry_result, rule_results, result,
                   compliance_results, exported>>

\* geometry_results = check_multiple_spaces(spaces); an exception leaves the
\* pipeline
CheckMultipleSpaces ==
    /\ pc = "batch_geometry"
    /\ LET out == check_multiple_spaces(spaces)
       IN  IF out.exc # ""
           THEN /\ raised' = out.exc
                /\ pc' = "aborted"
                /\ UNCHANGED geometry_results
           ELSE /\ geometry_results' = out.value
                /\ pc' = "batch_compliance"
                /\ UNCHANGED raised
    /\ UNCHANGED <<space_dict, geometry_result, rule_results, result, spaces,
                   compliance_results, exported>>

\* mutant: the feasibility result of the room before is handed over
CheckComplianceOfNextStale ==
    /\ pc = "batch_compliance"
    /\ Len(compliance_results) < Len(spaces)
    /\ LET i == Len(compliance_results) + 1
           out == check_compliance(spaces[i],
                                   geometry_results[IF i > 1 THEN i - 1 ELSE i])
       IN  IF out.exc # ""
           THEN /\ raised' = out.exc
                /\ pc' = "aborted"
                /\ UNCHANGED compliance_results
           ELSE /\ compliance_results' =
                      Append(compliance_results, ComplianceResult(out))
                /\ UNCHANGED <<raised, pc>>
    /\ UNCHANGED <<space_dict, geometry_result, rule_results, result, spaces,
                   geometry_results, exported>>

\* one turn of the loop: result = checker.check_compliance(space,
\* geometry_results[i]); compliance_results.append(result); an exception
\* leaves the loop and the pipeline
CheckComplianceOfNext ==
    /\ pc = "batch_compliance"
    /\ Len(compliance_results) < Len(spaces)
    /\ LET i == Len(compliance_results) + 1
           out == check_compliance(spaces[i], geometry_results[i])
       IN  IF out.exc # ""
           THEN /\ raised' = out.exc
                /\ pc' = "aborted"
                /\ UNCHANGED compliance_results
           ELSE /\ compliance_results' =
                      Append(compliance_results, ComplianceResult(out))
                /\ UNCHANGED <<raised, pc>>
    /\ UNCHANGED <<space_dict, geometry_result, rule_results, result, spaces,
                   geometry_results, exported>>

\* after the loop: "results": [r.to_dict() for r in results]
ExportResults ==
    /\ pc = "batch_compliance"
    /\ Len(compliance_results) = Len(spaces)
    /\ exported' = [k \in 1..Len(compliance_results) |->
                       ComplianceResult_to_dict(compliance_results[k])]
    /\ pc' = "batch_done"
    /\ UNCHANGED <<space_dict, geometry_result, rule_results, result, raised,
                   spaces, geometry_results, compliance_results>>

NextBatch == CheckMultipleSpaces \/ CheckComplianceOfNext \/ ExportResults

SpecBatch == InitBatch /\ [][NextBatch]_vars

-----------------------------------------------------------------------------
(* The claims *)

\* the keys of the room record that the i-th rule reads
Reads(i) ==
    CASE i = 2 -> {"boundary"}
      [] i = 4 -> {"corridor_width_mm"}
      [] i = 5 -> {"ramp_slope_ratio"}
      [] i = 6 -> {"handrail_height_mm"}
      [] i = 7 -> {"door_opens_outward"}
      [] i = 8 -> {"rest_area_25m_compliant"}
      [] i = 9 -> {"elevator_width_mm", "elevator_depth_mm"}
      [] i = 10 -> {"elevator_door_width_mm"}
      [] i = 11 -> {"emergency_exit_width_mm"}
      [] i = 12 -> {"emergency_exit_door_opens_outward"}
      [] i = 13 -> {"stair_rise_mm", "stair_run_mm"}
      [] i = 14 -> {"parking_width_mm"}
      [] i = 15 -> {"parking_length_mm"}
      [] i = 16 -> {"stair_handrail_both_sides"}
      [] i = 17 -> {"stair_width_mm"}
      [] i = 18 -> {"window_sill_height_mm"}
      [] i = 19 -> {"window_opening_width_mm", "window_opening_height_mm"}
      [] i = 20 -> {"tactile_guidance_present"}
      [] OTHER -> {}

Returned == pc = "done" /\ raised = "" /\ result.k = "val"
Status(i) == rule_results[i].status
TypeOf(sd) == Lower(sd["type"])
AppliesTo(i) == Has(space_dict, "type") /\ TypeOf(space_dict) \in rules[i].applies_to
HasStatus(st) == \E i \in 1..Len(rule_results) : Status(i) = st
HasFail(sev) ==
    \E i \in 1..Len(rule_results) :
        Status(i) = "FAIL" /\ rule_results[i].severity = sev

\* C1: the aggregate status of a returned result is ERROR exactly when some
\* rule result is ERROR, else FAIL exactly when a CRITICAL result is FAIL,
\* else PARTIAL exactly when a result is NOT_CHECKED or a WARNING result is
\* FAIL, else PASS; and turning a NOT_APPLICABLE result into PASS, or a PASS
\* result into NOT_APPLICABLE, leaves the aggregate as it is.
Thm_C1_Aggregation ==
    Returned =>
        /\ result.overall_status =
              IF HasStatus("ERROR") THEN "ERROR"
              ELSE IF HasFail("CRITICAL") THEN "FAIL"
              ELSE IF HasStatus("NOT_CHECKED") \/ HasFail("WARNING") THEN "PARTIAL"
              ELSE "PASS"
        /\ \A i \in 1..Len(rule_results) :
              /\ Status(i) = "NOT_APPLICABLE" =>
                    _calculate_overall_status(
                        [rule_results EXCEPT ![i].status = "PASS"])
                    = result.overall_status
              /\ Status(i) = "PASS" =>
                    _calculate_overall_status(
                        [rule_results EXCEPT ![i].status = "NOT_APPLICABLE"])
                    = result.overall_status

\* a result with an ERROR and a CRITICAL FAIL among its rules, which is ERROR
Wit_C1_ErrorOverFail ==
    /\ Returned
    /\ HasStatus("ERROR") /\ HasFail("CRITICAL") /\ HasStatus("NOT_APPLICABLE")
    /\ result.overall_status = "ERROR"

\* C2: a returned result holds 20 rule results, the i-th one that of the
\* i-th catalogue rule (turning circle first, tactile guidance last), with 20
\* distinct rule ids, whatever the statuses of the rules before it.
Thm_C2_AllRulesRun ==
    Returned =>
        /\ Len(rule_results) = 20
        /\ Len(rules) = 20
        /\ \A i \in 1..Len(rule_results) : rule_results[i].rule_id = rules[i].id
        /\ rule_results[1].rule_id = RULE_TURNING_CIRCLE.id
        /\ rule_results[20].rule_id = RULE_TACTILE_GUIDANCE.id
        /\ Cardinality({rule_results[i].rule_id : i \in 1..Len(rule_results)}) = 20

\* the first rule yields ERROR, a later one FAIL, others NOT_APPLICABLE, and
\* all 20 results are there
Wit_C2_ErrorThenOthers ==
    /\ Returned
    /\ Status(1) = "ERROR"
    /\ Status(7) = "FAIL"
    /\ Status(20) = "NOT_APPLICABLE"

\* C3: a rule whose applies_to does not hold the room's type yields
\* NOT_APPLICABLE, whatever else the room record and the feasibility result
\* hold.
Thm_C3_NotApplicable ==
    (pc = "done" /\ raised # "ValueError") =>
        \A i \in 1..Len(rule_results) :
            ~AppliesTo(i) => Status(i) = "NOT_APPLICABLE"

\* a corridor that comes with a mismatched feasibility result and a door
\* swing: the bathroom rules are not applicable
Wit_C3_ForeignInputs ==
    /\ Returned
    /\ TypeOf(space_dict) = "corridor"
    /\ geometry_result.k = "val" /\ geometry_result.space_id # space_dict["id"]
    /\ Has(space_dict, "door_opens_outward")
    /\ Status(1) = "NOT_APPLICABLE" /\ Status(7) = "NOT_APPLICABLE"

Thm_C5_TurningCircleRule ==
    (Returned /\ TypeOf(space_dict) \in {"bathroom", "wc", "toilet"}) =>
        Status(1) =
            IF geometry_result.k = "none" THEN "ERROR"
            ELSE IF geometry_result.space_id # space_dict["id"] THEN "ERROR"
            ELSE IF geometry_result.passed THEN "PASS"
            ELSE "FAIL"

\* a wc with a passed feasibility result of another room
Wit_C5_Mismatch ==
    /\ Returned
    /\ TypeOf(space_dict) = "wc"
    /\ geometry_result.k = "val" /\ geometry_result.passed
    /\ geometry_result.space_id # space_dict["id"]
    /\ Status(1) = "ERROR"

\* the comparison of the i-th rule, as the rule table states it
TableHolds(i, sd) ==
    CASE i = 2 ->
            LET b == sd["boundary"].pts
                w == Max(Xs(b)) - Min(Xs(b))
                h == Max(Ys(b)) - Min(Ys(b))
            IN  w >= 900 /\ h >= 900
      [] i = 4 -> sd["corridor_width_mm"] >= 1300
      [] i = 6 -> sd["handrail_height_mm"] \in 900..1000
      [] i = 9 -> sd["elevator_width_mm"] >= 1100 /\ sd["elevator_depth_mm"] >= 1400
      [] i = 10 -> sd["elevator_door_width_mm"] >= 800
      [] i = 11 -> sd["emergency_exit_width_mm"] >= 900
      [] i = 13 -> sd["stair_rise_mm"] <= 150 /\ sd["stair_run_mm"] >= 300
      [] i = 14 -> sd["parking_width_mm"] >= 3600
      [] i = 15 -> sd["parking_length_mm"] >= 5000
      [] i = 17 -> sd["stair_width_mm"] >= 1200
      [] i = 18 -> sd["window_sill_height_mm"] <= 600
      [] i = 19 ->
            sd["window_opening_width_mm"] >= 900
            /\ sd["window_opening_height_mm"] >= 1200

QuantitativeRules == {2, 4, 6, 9, 10, 11, 13, 14, 15, 17, 18, 19}

\* the room record holds what the i-th rule reads (a boundary: 3 points)
InputsPresent(i, sd) ==
    /\ Reads(i) \subseteq DOMAIN sd
    /\ i = 2 => Len(sd["boundary"].pts) >= 3

\* C6: a quantitative rule on an applicable room that holds what the rule
\* reads yields PASS when the comparison of the rule table holds, the
\* threshold itself included, and FAIL when it does not.
Thm_C6_Thresholds ==
    Returned =>
        \A i \in QuantitativeRules :
            (AppliesTo(i) /\ InputsPresent(i, space_dict)) =>
                Status(i) = IF TableHolds(i, space_dict) THEN "PASS" ELSE "FAIL"

\* a corridor exactly 1300 wide passes
Wit_C6_AtThreshold ==
    /\ Returned
    /\ AppliesTo(4)
    /\ Has(space_dict, "corridor_width_mm") /\ space_dict["corridor_width_mm"] = 1300
    /\ Status(4) = "PASS"

\* C7 as stated: on a ramp, a ramp_slope_ratio above 1 is a percentage and is
\* divided by 100 before it is compared with 1/12, so that 5 passes.
CE_C7_PercentNormalized ==
    (Returned /\ AppliesTo(5) /\ Has(space_dict, "ramp_slope_ratio")
       /\ space_dict["ramp_slope_ratio"] > SlopeDen) =>
        Status(5) =
            IF space_dict["ramp_slope_ratio"] \div 100 <= SlopeDen \div 12
            THEN "PASS" ELSE "FAIL"

BooleanRules == {7, 8, 12, 16, 20}
AttributeRules == {i \in 1..20 : Reads(i) # {} /\ i # 2}

\* C8 as stated: an applicable rule whose attributes are all present, 0 and
\* False included, returns PASS or FAIL (a boolean rule PASS exactly when the
\* value is true), and one that returns NOT_CHECKED lacks an attribute.
CE_C8_ZeroIsPresent ==
    (pc = "done" /\ raised # "ValueError") =>
        \A i \in AttributeRules :
            AppliesTo(i) =>
                /\ i <= Len(rule_results)
                /\ (Reads(i) \subseteq DOMAIN space_dict)
                      => Status(i) \in {"PASS", "FAIL"}
                /\ (i \in BooleanRules /\ Reads(i) \subseteq DOMAIN space_dict)
                      => (Status(i) = "PASS"
                            <=> \A key \in Reads(i) : space_dict[key] # 0)
                /\ Status(i) = "NOT_CHECKED"
                      => ~(Reads(i) \subseteq DOMAIN space_dict)

\* C9: check_compliance raises ValueError, with no rule evaluated and no
\* result, on every record without id or without type, and on no record that
\* has both.
Thm_C9_Validation ==
    pc = "done" =>
        IF Has(space_dict, "id") /\ Has(space_dict, "type")
        THEN raised # "ValueError"
        ELSE raised = "ValueError" /\ rule_results = <<>> /\ result.k = "none"

\* a record without type that holds an optional attribute is rejected
Wit_C9_NoType ==
    /\ pc = "done"
    /\ Has(space_dict, "id") /\ ~Has(space_dict, "type")
    /\ Has(space_dict, "corridor_width_mm")
    /\ raised = "ValueError"

\* the bounding box of the room's boundary
BoxWidth(sd) == Max(Xs(sd["boundary"].pts)) - Min(Xs(sd["boundary"].pts))
BoxHeight(sd) == Max(Ys(sd["boundary"].pts)) - Min(Ys(sd["boundary"].pts))
ValidPolygon(sd) ==
    /\ Has(sd, "boundary") /\ ~sd["boundary"].is_none
    /\ Len(sd["boundary"].pts) >= 3
    /\ is_valid(U(sd["boundary"].pts))
Checked == pc # "geometry" /\ geometry_result.k = "val"

\* C10: check_turning_circle does not pass a valid polygon whose bounding box
\* is less than 1500 wide or less than 1500 high.
Thm_C10_TooSmall ==
    (pc # "geometry" /\ ValidPolygon(space_dict)
       /\ (BoxWidth(space_dict) < 1500 \/ BoxHeight(space_dict) < 1500)) =>
        /\ Checked
        /\ ~geometry_result.passed
        /\ geometry_result.circle_center.k = "none"

\* a rectangle 1450 wide and at least 1500 high: a candidate centre is tried,
\* it is inside the rectangle, and its circle does not fit
Wit_C10_CandidateTried ==
    /\ Checked
    /\ ValidPolygon(space_dict)
    /\ BoxWidth(space_dict) = 1450 /\ BoxHeight(space_dict) >= 1500
    /\ ~geometry_result.passed
    /\ geometry_result.collision_details
          = "FAIL: No valid turning circle position found"

\* the boundary is the ring of an axis-aligned rectangle
IsRectangle(sd) ==
    /\ ValidPolygon(sd)
    /\ LET pts == sd["boundary"].pts
           b == [minx |-> Min(Xs(pts)), miny |-> Min(Ys(pts))]
       IN  pts = RectAt(b.minx, b.miny, BoxWidth(sd), BoxHeight(sd))

CE_C12_NeverRaises ==
    (pc # "geometry" /\ ~ValidPolygon(space_dict)) =>
        /\ raised = ""
        /\ Checked
        /\ ~geometry_result.passed
        /\ geometry_result.collision_details # ""
        /\ ~Has(space_dict, "boundary") =>
              geometry_result.collision_details = "ERROR: No boundary data"
        /\ (Has(space_dict, "boundary") /\ ~space_dict["boundary"].is_none
              /\ Len(space_dict["boundary"].pts) < 3) =>
              /\ geometry_result.collision_details
                    = "ERROR: Boundary has only n points"
              /\ geometry_result.count = Len(space_dict["boundary"].pts)

\* C13: a result of check_turning_circle has a circle_center exactly when it
\* passed, a circle diameter of 1500, and the id of the room as space_id.
Thm_C13_ResultShape ==
    Checked =>
        /\ (geometry_result.circle_center.k = "val") <=> geometry_result.passed
        /\ geometry_result.circle_diameter_mm = 1500
        /\ geometry_result.space_id = space_dict["id"]

\* an L-shaped room that passed, with its centre
Wit_C13_PassedWithCenter ==
    /\ Checked
    /\ ValidPolygon(space_dict) /\ Len(space_dict["boundary"].pts) = 6
    /\ geometry_result.passed
    /\ geometry_result.circle_center.k = "val"
    /\ geometry_result.space_id = space_dict["id"]

\* C16: a bathroom with a 3000 x 2500 rectangle as boundary and no optional
\* attribute, with a passed feasibility result of its own, gets PASS from the
\* turning-circle and the door-width rule, NOT_CHECKED from the threshold
\* rule, NOT_APPLICABLE from every rule that does not apply to bathrooms, and
\* PARTIAL as aggregate.
Thm_C16_BathroomScenario ==
    (Returned /\ DOMAIN space_dict = {"id", "type", "boundary"}
       /\ space_dict["type"] = "bathroom"
       /\ space_dict["boundary"] = Boundary(Rect(3000, 2500))
       /\ geometry_result.k = "val" /\ geometry_result.passed
       /\ geometry_result.space_id = space_dict["id"]) =>
        /\ Status(1) = "PASS"
        /\ Status(2) = "PASS"
        /\ Status(3) = "NOT_CHECKED"
        /\ \A i \in 1..20 :
              "bathroom" \notin rules[i].applies_to => Status(i) = "NOT_APPLICABLE"
        /\ result.overall_status = "PARTIAL"

\* the scenario itself, evaluated
Wit_C16_Scenario ==
    /\ Returned
    /\ DOMAIN space_dict = {"id", "type", "boundary"}
    /\ space_dict["type"] = "bathroom"
    /\ space_dict["boundary"] = Boundary(Rect(3000, 2500))
    /\ geometry_result = GeometryResult(TheId, TRUE)
    /\ result.overall_status = "PARTIAL"
    /\ result.passed_count = 2

\* C17: the threshold rule yields NOT_CHECKED on every bathroom, wc, toilet
\* and entrance, whatever else the room record holds.
Thm_C17_ThresholdNotChecked ==
    (Returned /\ TypeOf(space_dict) \in {"bathroom", "wc", "toilet", "entrance"})
        => rule_results[3].rule_id = RULE_THRESHOLD.id /\ Status(3) = "NOT_CHECKED"

\* an entrance without boundary that holds two attributes
Wit_C17_Entrance ==
    /\ Returned
    /\ TypeOf(space_dict) = "entrance"
    /\ ~Has(space_dict, "boundary")
    /\ Cardinality(DOMAIN space_dict) = 4
    /\ Status(3) = "NOT_CHECKED"

\* C20: the three counts of a result are the numbers of its rule results
\* with status PASS, FAIL and NOT_CHECKED, and with the numbers of
\* NOT_APPLICABLE and ERROR results they add up to 20.
Thm_C20_Counts ==
    Returned =>
        LET n(st) == Cardinality({i \in 1..Len(rule_results) : Status(i) = st})
        IN  /\ result.passed_count = n("PASS")
            /\ result.failed_count = n("FAIL")
            /\ result.not_checked_count = n("NOT_CHECKED")
            /\ result.passed_count + result.failed_count
                 + result.not_checked_count
                 + n("NOT_APPLICABLE") + n("ERROR") = 20

\* a result with every kind of status in it
Wit_C20_AllStatuses ==
    /\ Returned
    /\ result.passed_count >= 1 /\ result.failed_count >= 1
    /\ result.not_checked_count >= 1
    /\ HasStatus("ERROR") /\ HasStatus("NOT_APPLICABLE")

BatchEnded == pc \in {"aborted", "batch_done"}

\* C14 as stated: for every list of rooms the batch pipeline ends with one
\* feasibility result and one ComplianceResult per room, the i-th ones
\* carrying the id of the i-th room.
CE_C14_OnePerRoom ==
    BatchEnded =>
        /\ Len(geometry_results) = Len(spaces)
        /\ Len(compliance_results) = Len(spaces)
        /\ \A i \in 1..Len(spaces) :
              /\ geometry_results[i].space_id = spaces[i]["id"]
              /\ compliance_results[i].space_id = spaces[i]["id"]

\* the room is evaluated without an exception when it is evaluated alone
EvaluatesAlone(sd) ==
    /\ check_turning_circle(sd).exc = ""
    /\ check_compliance(sd, check_turning_circle(sd).value).exc = ""

\* C15 as stated: when the evaluation of a room of the batch raises, every
\* other room still gets its ComplianceResult.
CE_C15_FaultDoesNotAbort ==
    BatchEnded =>
        \A i \in 1..Len(spaces) :
            EvaluatesAlone(spaces[i]) =>
                \E k \in 1..Len(compliance_results) :
                    compliance_results[k].space_id = spaces[i]["id"]

\* RuleStatus(value), Severity(value): the member that has the value
RuleStatusOf(value) == CHOOSE m \in RuleStatus : RuleStatusValue(m) = value
SeverityOf(value) == CHOOSE m \in Severity : SeverityValue(m) = value

CE_C24_NeverRaises ==
    (pc = "done" /\ Has(space_dict, "id") /\ Has(space_dict, "type")) =>
        /\ raised = ""
        /\ result.k = "val"
        /\ Len(rule_results) = 20

BathroomTypes == {"bathroom", "wc", "toilet"}

\* C25: the aggregate status of a bathroom, wc or toilet is ERROR, FAIL or
\* PARTIAL, never PASS, whatever its boundary, attributes and feasibility
\* result, and its threshold rule is NOT_CHECKED.
Thm_C25_BathroomNeverPass ==
    (Returned /\ TypeOf(space_dict) \in BathroomTypes) =>
        /\ result.overall_status \in {"ERROR", "FAIL", "PARTIAL"}
        /\ Status(3) = "NOT_CHECKED"

\* a toilet in which everything is in order: the threshold rule is the only
\* one that is not PASS or NOT_APPLICABLE, and the aggregate is PARTIAL
Wit_C25_OnlyThreshold ==
    /\ Returned
    /\ TypeOf(space_dict) = "toilet"
    /\ \A i \in 1..Len(rule_results) :
          i # 3 => Status(i) \in {"PASS", "NOT_APPLICABLE"}
    /\ Status(1) = "PASS" /\ Status(2) = "PASS" /\ Status(7) = "PASS"
    /\ result.not_checked_count = 1
    /\ result.overall_status = "PARTIAL"

\* C26: a result whose aggregate status is PASS has no rule result that is
\* FAIL, NOT_CHECKED or ERROR, and its failed and not-checked counts are 0;
\* every rule of the catalogue is CRITICAL or WARNING.
Thm_C26_PassHidesNothing ==
    /\ \A i \in 1..Len(rules) : rules[i].severity \in {"CRITICAL", "WARNING"}
    /\ (Returned /\ result.overall_status = "PASS") =>
          /\ \A i \in 1..Len(rule_results) :
                /\ Status(i) \in {"PASS", "NOT_APPLICABLE"}
                /\ rule_results[i].severity \in {"CRITICAL", "WARNING"}
          /\ result.failed_count = 0
          /\ result.not_checked_count = 0

\* a corridor in which the three rules that apply to it pass
Wit_C26_PassedCorridor ==
    /\ Returned
    /\ TypeOf(space_dict) = "corridor"
    /\ result.overall_status = "PASS"
    /\ result.passed_count = 3

\* C28: only the turning-circle and the door-width rule yield ERROR, so a
\* room that is no bathroom, wc or toilet has no ERROR among its rule results
\* and aggregates to FAIL, PARTIAL or PASS.
Thm_C28_ErrorOnlyBathrooms ==
    Returned =>
        /\ \A i \in 1..Len(rule_results) : Status(i) = "ERROR" => i \in {1, 2}
        /\ TypeOf(space_dict) \notin BathroomTypes =>
              /\ ~HasStatus("ERROR")
              /\ result.overall_status \in {"FAIL", "PARTIAL", "PASS"}

\* a corridor that comes without feasibility result and with a boundary of
\* fewer than 3 points: no ERROR
Wit_C28_CorridorBadInputs ==
    /\ Returned
    /\ TypeOf(space_dict) = "corridor"
    /\ geometry_result.k = "none"
    /\ Has(space_dict, "boundary") /\ Len(space_dict["boundary"].pts) < 3
    /\ result.overall_status = "PARTIAL"

\* the type tags of the extractor
ClosedTypes ==
    {"bathroom", "corridor", "ramp", "elevator", "stair", "parking",
     "emergency_exit", "other"}

\* C29 as stated: each of the 20 rules returns, for a room of some type of
\* the closed type set, a status other than NOT_APPLICABLE.
CE_C29_EveryRuleReachable ==
    pc = "done" =>
        \A i \in 1..20 :
            \E t \in ClosedTypes :
                CallRule(i, ("id" :> TheId) @@ ("type" :> t), NoGeometry)
                    .value.status # "NOT_APPLICABLE"

\* the grid lines between lo + 750 and hi - 750 + 100 (not included), 100 apart
GridAxis(lo, hi) ==
    {v \in (lo + 750)..(hi - 750 + 99) : (v - (lo + 750)) % 100 = 0}

\* the grid candidates of the room's polygon, and those that are inside it
\* with their disc of radius 750
GridPoints(sd) ==
    LET pts == sd["boundary"].pts
    IN  GridAxis(Min(Xs(pts)), Max(Xs(pts))) \X GridAxis(Min(Ys(pts)), Max(Ys(pts)))
Fitting(sd) ==
    LET up == U(sd["boundary"].pts)
    IN  {c \in GridPoints(sd) :
            LET cu == <<c[1] \div Unit, c[2] \div Unit>>
            IN  ContainsPoint(up, cu) /\ ContainsCircle(up, cu, 750 \div Unit)}

\* C22: on a valid polygon check_turning_circle passes exactly when some
\* grid candidate is inside the polygon with its disc, and the centre it
\* returns is the fitting candidate with the smallest x and, among those
\* with that x, the smallest y.
Thm_C22_FirstFit ==
    (pc # "geometry" /\ ValidPolygon(space_dict)) =>
        /\ Checked
        /\ geometry_result.passed <=> Fitting(space_dict) # {}
        /\ geometry_result.passed =>
              LET c == geometry_result.circle_center
              IN  /\ <<c.x, c.y>> \in Fitting(space_dict)
                  /\ \A f \in Fitting(space_dict) :
                        c.x < f[1] \/ (c.x = f[1] /\ c.y <= f[2])

\* the room whose corner at the grid's origin is cut out: the first
\* candidates do not fit, (750, 2250) is returned, and (2250, 750), which
\* has a smaller y, fits as well
Wit_C22_NotTheFirstCandidate ==
    /\ Checked
    /\ ValidPolygon(space_dict)
    /\ geometry_result.passed
    /\ geometry_result.circle_center = Center(750, 2250)
    /\ <<2250, 750>> \in Fitting(space_dict)
    /\ <<750, 750>> \notin Fitting(space_dict)

\* the candidates the search goes through on the room's polygon
Tested(sd) ==
    LET cand == Candidates(bounds(sd["boundary"].pts))
    IN  {cand[i] : i \in 1..Len(cand)}

\* C23 as stated: every candidate is inside the bounding box shrunk by 750 on
\* each side, for every size of the bounding box.
CE_C23_InsideShrunkBox ==
    (pc # "geometry" /\ ValidPolygon(space_dict)) =>
        LET pts == space_dict["boundary"].pts
        IN  \A c \in Tested(space_dict) :
                /\ Min(Xs(pts)) + 750 <= c[1] /\ c[1] <= Max(Xs(pts)) - 750
                /\ Min(Ys(pts)) + 750 <= c[2] /\ c[2] <= Max(Ys(pts)) - 750

\* C23 amended: every candidate is on the 100 grid anchored at (minx + 750,
\* miny + 750), with minx + 750 <= x < maxx - 750 + 100 and miny + 750 <= y <
\* maxy - 750 + 100; it is inside the shrunk box when the sides of the
\* bounding box are 1500 plus a multiple of 100.
Thm_C23_CandidateRange ==
    (pc # "geometry" /\ ValidPolygon(space_dict)) =>
        LET pts == space_dict["boundary"].pts
            minx == Min(Xs(pts))
            miny == Min(Ys(pts))
            maxx == Max(Xs(pts))
            maxy == Max(Ys(pts))
        IN  \A c \in Tested(space_dict) :
                /\ (c[1] - (minx + 750)) % 100 = 0
                /\ (c[2] - (miny + 750)) % 100 = 0
                /\ minx + 750 <= c[1] /\ c[1] < maxx - 750 + 100
                /\ miny + 750 <= c[2] /\ c[2] < maxy - 750 + 100
                /\ (maxx - minx >= 1500 /\ (maxx - minx) % 100 = 0)
                      => c[1] <= maxx - 750
                /\ (maxy - miny >= 1500 /\ (maxy - miny) % 100 = 0)
                      => c[2] <= maxy - 750

\* a rectangle 1550 wide: the grid line minx + 850 is gone through, beyond
\* maxx - 750
Wit_C23_Overshoot ==
    /\ Checked
    /\ ValidPolygon(space_dict)
    /\ BoxWidth(space_dict) = 1550
    /\ \E c \in Tested(space_dict) :
          c[1] = Min(Xs(space_dict["boundary"].pts)) + 850

\* C30 as stated: a room that fails with the diagnostic that its dimensions
\* are too small has a bounding box less than 1500 wide or less than 1500
\* high.
CE_C30_TooSmallIsSmall ==
    (Checked /\ ValidPolygon(space_dict)
       /\ geometry_result.collision_details
             = "FAIL: Space dimensions are too small") =>
        BoxWidth(space_dict) < 1500 \/ BoxHeight(space_dict) < 1500

\* C21: no step of the batch pipeline (check_multiple_spaces with its
\* check_turning_circle calls, check_compliance, the export) changes a room
\* record: the list of rooms is after every step what it was before.
Thm_C21_RoomsUnchanged == [][spaces' = spaces]_vars

\* a batch of three rooms, two of them bathrooms with a boundary, has gone
\* through the feasibility check and the rules
Wit_C21_BatchDone ==
    /\ pc = "batch_done"
    /\ Len(spaces) >= 3
    /\ Len(geometry_results) = Len(spaces)
    /\ Len(compliance_results) = Len(spaces)
    /\ \E i, j \in 1..Len(spaces) :
          /\ i # j
          /\ Has(spaces[i], "boundary") /\ geometry_results[i].passed
          /\ Has(spaces[j], "boundary") /\ ~geometry_results[j].passed

\* C27: in the batch pipeline the i-th feasibility result carries the id of
\* the i-th room, and the turning-circle rule returns ERROR for no room
\* check_compliance returned a result for.
Thm_C27_IdsMatch ==
    /\ \A i \in 1..Len(geometry_results) :
          /\ Has(spaces[i], "id")
          /\ geometry_results[i].space_id = spaces[i]["id"]
    /\ \A k \in 1..Len(compliance_results) :
          /\ compliance_results[k].rules_checked[1].rule_id
                = RULE_TURNING_CIRCLE.id
          /\ compliance_results[k].rules_checked[1].status # "ERROR"

\* bathrooms with different ids and different verdicts in one batch, the
\* turning-circle rule passing on one and failing on the other
Wit_C27_TwoBathrooms ==
    /\ pc = "batch_done"
    /\ \E i, j \in 1..Len(compliance_results) :
          /\ spaces[i]["id"] # spaces[j]["id"]
          /\ spaces[i]["type"] = "bathroom" /\ spaces[j]["type"] = "bathroom"
          /\ compliance_results[i].rules_checked[1].status = "PASS"
          /\ compliance_results[j].rules_checked[1].status = "FAIL"

====
